---- MODULE Spec2Model ----
(***************************************************************************)
(* Model of src/servo.cpp: one global Servo object, servoInit() and the    *)
(* blocking sweep servo(int delayTime).  The calls the code makes on the   *)
(* ESP32Servo driver and on the Arduino timer (myservo.write, delay) are   *)
(* recorded, in program order, in a per-call event log.                    *)
(***************************************************************************)
EXTENDS Integers, Sequences, FiniteSets, TLC

VARIABLES
    pc,         \* position of the single thread of control inside servo()
    pos,        \* the loop variable `pos` of the running loop
    delayTime,  \* the parameter of the running (or last) servo() call
    myservo,    \* configuration held by the global Servo object
    angle,      \* the last angle handed to myservo.write (driver register)
    log,        \* myservo.write / delay calls issued by the running (or last) call
    calls,      \* number of servo() calls started
    inits       \* number of servoInit() calls made

vars == <<pc, pos, delayTime, myservo, angle, log, calls, inits>>

----------------------------------------------------------------------------
(* Bounds of the model. *)
MaxCalls == 2
MaxInits == 2
MaxDelay == 2

----------------------------------------------------------------------------
(* Literals of the program. *)
servoPin == 33
PeriodHertz == 333
MinPulse == 900
MaxPulse == 2100
BackStart == 176
BackEnd == 45
StepDelay == 1
(* Variant: a settle pause of 30 ms. *)
SettleDelayShort == StepDelay * 30
SettleDelay == 300
FwdStart == 45
(* Variant: the earlier upper bound of the forward loop (172). *)
FwdEndOld == BackStart - 4
FwdEnd == 176

(* `int` is 32 bits wide on the target: INT_MAX. *)
IntMax == 2147483647

NoAngle == 0 - 1

----------------------------------------------------------------------------
(* delay() takes a uint32_t.  A 32-bit unsigned value is kept as two 16-bit *)
(* limbs <<high, low>>.                                                     *)
Limb == 2 ^ 16

(* A natural number as limbs; the high limb is not reduced. *)
FromNat(n) == <<n \div Limb, n % Limb>>

(* Sum of two limb pairs, the high limb not reduced (no wrap-around). *)
Plus(a, b) == <<a[1] + b[1] + ((a[2] + b[2]) \div Limb), (a[2] + b[2]) % Limb>>

(* The implicit conversion int -> uint32_t at the call of delay(): the     *)
(* value modulo 2^32.                                                      *)
ToUint32(n) == <<(n \div Limb) % Limb, n % Limb>>

(* The values handed to servo() by a caller: any int. *)
DelayTimes == {0 - IntMax - 1, 0 - 1} \cup (0 .. MaxDelay) \cup {SettleDelay, IntMax}

----------------------------------------------------------------------------
(* Events of the log. *)
WriteEv(site, a) == [op |-> "write", site |-> site, angle |-> a]
DelayEv(site, ms) == [op |-> "delay", site |-> site, ms |-> ms]

(* Servo myservo; -- the driver's defaults before any attach. *)
Init ==
    /\ pc = "idle"
    /\ pos = 0
    /\ delayTime = 0
    /\ myservo = [hz |-> 50, pin |-> 0 - 1, min |-> 544, max |-> 2400, attached |-> FALSE]
    /\ angle = NoAngle
    /\ log = << >>
    /\ calls = 0
    /\ inits = 0

(* Variant: servoInit() without the setPeriodHertz call. *)
ServoInitNoHertz ==
    /\ pc = "idle"
    /\ inits < MaxInits
    /\ \E ok \in BOOLEAN :
         myservo' = [hz |-> myservo.hz, pin |-> servoPin, min |-> MinPulse,
                     max |-> MaxPulse, attached |-> ok]
    /\ inits' = inits + 1
    /\ UNCHANGED <<pc, pos, delayTime, angle, log, calls>>

(* void servoInit(): setPeriodHertz(333); attach(servoPin, 900, 2100).     *)
(* attach may or may not obtain a PWM channel; its result is discarded.    *)
ServoInit ==
    /\ pc = "idle"
    /\ inits < MaxInits
    /\ \E ok \in BOOLEAN :
         myservo' = [hz |-> PeriodHertz, pin |-> servoPin, min |-> MinPulse,
                     max |-> MaxPulse, attached |-> ok]
    /\ inits' = inits + 1
    /\ UNCHANGED <<pc, pos, delayTime, angle, log, calls>>

(* Entry of servo(d): binds the parameter, initialises the first loop. *)
CallServo ==
    /\ pc = "idle"
    /\ calls < MaxCalls
    /\ \E d \in DelayTimes : delayTime' = d
    /\ pos' = BackStart
    /\ log' = << >>
    /\ calls' = calls + 1
    /\ pc' = "back"
    /\ UNCHANGED <<myservo, angle, inits>>

(* Variant: the write is issued only when the servo is attached. *)
BackWriteIfAttached ==
    /\ pc = "back"
    /\ pos >= BackEnd
    /\ log' = IF myservo.attached THEN Append(log, WriteEv("back", pos)) ELSE log
    /\ angle' = IF myservo.attached THEN pos ELSE angle
    /\ pc' = "back_delay"
    /\ UNCHANGED <<pos, delayTime, myservo, calls, inits>>

(* for (pos = 176; pos >= 45; pos--) { myservo.write(pos); ... *)
BackWrite ==
    /\ pc = "back"
    /\ pos >= BackEnd
    /\ log' = Append(log, WriteEv("back", pos))
    /\ angle' = pos
    /\ pc' = "back_delay"
    /\ UNCHANGED <<pos, delayTime, myservo, calls, inits>>

(* Variant: the loop steps by two. *)
BackDelayStepTwo ==
    /\ pc = "back_delay"
    /\ log' = Append(log, DelayEv("back", ToUint32(StepDelay)))
    /\ pos' = pos - 2
    /\ pc' = "back"
    /\ UNCHANGED <<delayTime, myservo, angle, calls, inits>>

(* Variant: the pause is made between steps only, not after the last one. *)
BackDelayBetweenSteps ==
    /\ pc = "back_delay"
    /\ log' = IF pos > BackEnd THEN Append(log, DelayEv("back", ToUint32(StepDelay))) ELSE log
    /\ pos' = pos - 1
    /\ pc' = "back"
    /\ UNCHANGED <<delayTime, myservo, angle, calls, inits>>

(* ... delay(1); } pos-- *)
BackDelay ==
    /\ pc = "back_delay"
    /\ log' = Append(log, DelayEv("back", ToUint32(StepDelay)))
    /\ pos' = pos - 1
    /\ pc' = "back"
    /\ UNCHANGED <<delayTime, myservo, angle, calls, inits>>

(* Variant: after the first loop, control skips the settle pause and the *)
(* second loop.                                                          *)
BackExitSkip ==
    /\ pc = "back"
    /\ pos < BackEnd
    /\ pc' = "final"
    /\ UNCHANGED <<pos, delayTime, myservo, angle, log, calls, inits>>

(* The first loop's condition fails. *)
BackExit ==
    /\ pc = "back"
    /\ pos < BackEnd
    /\ pc' = "settle"
    /\ UNCHANGED <<pos, delayTime, myservo, angle, log, calls, inits>>

(* Variant: the settle pause takes the parameter instead of 300. *)
SettleByParam ==
    /\ pc = "settle"
    /\ log' = Append(log, DelayEv("settle", ToUint32(delayTime)))
    /\ pos' = FwdStart
    /\ pc' = "fwd"
    /\ UNCHANGED <<delayTime, myservo, angle, calls, inits>>

(* delay(300); then the second loop's initialisation. *)
Settle ==
    /\ pc = "settle"
    /\ log' = Append(log, DelayEv("settle", ToUint32(SettleDelay)))
    /\ pos' = FwdStart
    /\ pc' = "fwd"
    /\ UNCHANGED <<delayTime, myservo, angle, calls, inits>>

(* Variant: the commented-out delay(1) of the second loop is active. *)
FwdWriteWithDelay ==
    /\ pc = "fwd"
    /\ pos <= FwdEnd
    /\ log' = log \o <<WriteEv("fwd", pos), DelayEv("fwd", ToUint32(StepDelay))>>
    /\ angle' = pos
    /\ pos' = pos + 1
    /\ UNCHANGED <<pc, delayTime, myservo, calls, inits>>

(* for (pos = 45; pos <= 176; pos++) { myservo.write(pos); } *)
FwdWrite ==
    /\ pc = "fwd"
    /\ pos <= FwdEnd
    /\ log' = Append(log, WriteEv("fwd", pos))
    /\ angle' = pos
    /\ pos' = pos + 1
    /\ UNCHANGED <<pc, delayTime, myservo, calls, inits>>

(* The second loop's condition fails. *)
FwdExit ==
    /\ pc = "fwd"
    /\ pos > FwdEnd
    /\ pc' = "final"
    /\ UNCHANGED <<pos, delayTime, myservo, angle, log, calls, inits>>

(* delay(delayTime); *)
FinalDelay ==
    /\ pc = "final"
    /\ log' = Append(log, DelayEv("final", ToUint32(delayTime)))
    /\ pc' = "ret"
    /\ UNCHANGED <<pos, delayTime, myservo, angle, calls, inits>>

(* The closing brace of servo(). *)
Return ==
    /\ pc = "ret"
    /\ pc' = "idle"
    /\ UNCHANGED <<pos, delayTime, myservo, angle, log, calls, inits>>

ServoStep ==
    \/ BackWrite
    \/ BackDelay
    \/ BackExit
    \/ Settle
    \/ FwdWrite
    \/ FwdExit
    \/ FinalDelay
    \/ Return

Next ==
    \/ ServoInit
    \/ CallServo
    \/ ServoStep

Spec == Init /\ [][Next]_vars

(* delay() returns and the thread keeps running: a started call proceeds. *)
FairSpec == Spec /\ WF_vars(ServoStep)

----------------------------------------------------------------------------
(* Reading the log. *)
Returned == pc = "idle" /\ calls > 0

IsWrite(e, site) == e.op = "write" /\ e.site = site
IsDelay(e, site) == e.op = "delay" /\ e.site = site

WritesAt(l, site) == SelectSeq(l, LAMBDA e : IsWrite(e, site))
AllWrites(l) == SelectSeq(l, LAMBDA e : e.op = "write")
AllDelays(l) == SelectSeq(l, LAMBDA e : e.op = "delay")
DelaysAt(l, site) == SelectSeq(l, LAMBDA e : IsDelay(e, site))
AnglesOf(s) == [i \in 1 .. Len(s) |-> s[i].angle]

(* Sum of the durations s[lo].ms .. s[hi].ms, by halving the range. *)
RECURSIVE PauseSum(_, _, _)
PauseSum(s, lo, hi) ==
    IF lo > hi THEN <<0, 0>>
    ELSE IF lo = hi THEN s[lo].ms
    ELSE LET mid == (lo + hi) \div 2
         IN  Plus(PauseSum(s, lo, mid), PauseSum(s, mid + 1, hi))

(* Total of the durations asked of delay(), as an exact (unwrapped) number. *)
TotalPause(l) == LET s == AllDelays(l) IN PauseSum(s, 1, Len(s))

Abs(n) == IF n < 0 THEN 0 - n ELSE n

----------------------------------------------------------------------------
----------------------------------------------------------------------------
(* C2 as stated: for d >= 0 the pauses requested by one call servo(d) sum  *)
(* to 131 + 300 + 0 + d = 431 + d milliseconds.                            *)
C2_TotalPause431 ==
    (Returned /\ delayTime >= 0) =>
        TotalPause(log) = Plus(FromNat(431), FromNat(delayTime))

(* C2 amended: every one of the 132 backward writes is followed by a 1 ms  *)
(* pause, so for d >= 0 the pauses sum to 132 + 300 + 0 + d = 432 + d.     *)
C2_TotalPause432 ==
    (Returned /\ delayTime >= 0) =>
        /\ Len(DelaysAt(log, "back")) = 132
        /\ Len(DelaysAt(log, "fwd")) = 0
        /\ TotalPause(log) = Plus(FromNat(432), FromNat(delayTime))

C2_Witness == Returned /\ delayTime = IntMax /\ TotalPause(log) = <<32768, 431>>

----------------------------------------------------------------------------
(* The sites of the log, consecutive repetitions dropped: the phases the   *)
(* call went through, in order.                                            *)
PhaseSeq(l) ==
    LET idx == SelectSeq([i \in 1 .. Len(l) |-> i],
                         LAMBDA i : i = 1 \/ l[i].site # l[i - 1].site)
    IN  [k \in 1 .. Len(idx) |-> l[idx[k]].site]

FullCall(l) ==
    LET back == WritesAt(l, "back")
        fwd == WritesAt(l, "fwd")
    IN  /\ PhaseSeq(l) = <<"back", "settle", "fwd", "final">>
        /\ Len(back) > 0 /\ back[1].angle = 176 /\ back[Len(back)].angle = 45
        /\ Len(fwd) > 0 /\ fwd[1].angle = 45 /\ fwd[Len(fwd)].angle = 176
        /\ l[Len(l)].op = "delay" /\ l[Len(l)].site = "final"
        /\ Len(DelaysAt(l, "final")) = 1

(* C3: every started call returns, and it returns only with exactly one    *)
(* backward traversal (176 down to 45), then exactly one forward traversal *)
(* (45 up to 176), then the final delay behind it: no phase is skipped or  *)
(* repeated and the final pause precedes the return.                       *)
C3_OneTraversalThenReturn ==
    /\ (pc # "idle") ~> (pc = "idle")
    /\ [][(pc # "idle" /\ pc' = "idle") => FullCall(log')]_vars

C3_Witness == Returned /\ calls = 2 /\ FullCall(log)

----------------------------------------------------------------------------
(* C4: every call of a sequence of calls makes the complete traversal and  *)
(* ends on angle 176; the first angle a call writes is 176; and any write  *)
(* differs by at most 1 from the write before it, also across calls.       *)
C4_ConsecutiveCalls ==
    /\ [](Returned => (Len(AllWrites(log)) = 264 /\ angle = 176))
    /\ [][(Len(log') = Len(log) + 1 /\ log'[Len(log')].op = "write") =>
            LET a == log'[Len(log')].angle
            IN  /\ (log = << >> => a = 176)
                /\ (angle # NoAngle => Abs(a - angle) <= 1)]_vars

C4_Witness == calls = 2 /\ Returned /\ angle = 176 /\ log[1] = WriteEv("back", 176)

----------------------------------------------------------------------------
(* C5: after n >= 1 calls of servoInit(), however interleaved with servo() *)
(* calls, the configuration is (333 Hz, pin 33, 900 us, 2100 us).          *)
C5_InitIdempotent ==
    inits >= 1 =>
        <<myservo.hz, myservo.pin, myservo.min, myservo.max>> = <<333, 33, 900, 2100>>

C5_Witness == inits >= 2 /\ Returned /\ myservo.hz = 333

----------------------------------------------------------------------------
(* C6: servo(0) still makes all 132 backward and all 132 forward writes    *)
(* and requests the 300 ms settle pause; the last event is a pause of 0 ms *)
(* and it directly follows the last write, so no wait is added.            *)
C6_ZeroDelay ==
    (Returned /\ delayTime = 0) =>
        /\ Len(WritesAt(log, "back")) = 132
        /\ Len(WritesAt(log, "fwd")) = 132
        /\ \E i \in 1 .. Len(log) : log[i].op = "delay" /\ log[i].ms = <<0, 300>>
        /\ log[Len(log)].op = "delay" /\ log[Len(log)].ms = <<0, 0>>
        /\ log[Len(log) - 1].op = "write"

C6_Witness == Returned /\ delayTime = 0 /\ log[Len(log)].ms = <<0, 0>>

----------------------------------------------------------------------------
(* C7 as stated: the final pause requested by servo(delayTime) has the     *)
(* numeric value of the argument the caller passed.                        *)
C7_FinalPauseIsArgument ==
    Returned => log[Len(log)].ms = FromNat(delayTime)

----------------------------------------------------------------------------
(* C8: the 300 ms settle pause is requested exactly once per call, after   *)
(* the last backward write (45) and before the first forward write (45);   *)
(* no forward write is in the log unless the settle pause is before it.    *)
C8_SettleOnceBetweenPhases ==
    LET S == {i \in 1 .. Len(log) : log[i].site = "settle"}
    IN  /\ Cardinality(S) <= 1
        /\ \A i \in S :
             /\ log[i].op = "delay" /\ log[i].ms = <<0, 300>>
             /\ \A j \in 1 .. (i - 1) : log[j].site = "back"
             /\ Len(WritesAt(SubSeq(log, 1, i - 1), "back")) = 132
             /\ log[i - 2] = WriteEv("back", 45)
             /\ \A j \in (i + 1) .. Len(log) : log[j].site \in {"fwd", "final"}
             /\ i < Len(log) => log[i + 1] = WriteEv("fwd", 45)
        /\ (\E j \in 1 .. Len(log) : log[j].site \in {"fwd", "final"}) => S # {}
        /\ Returned => Cardinality(S) = 1

C8_Witness ==
    /\ pc = "fwd"
    /\ Len(WritesAt(log, "fwd")) = 1
    /\ log[Len(log) - 1] = DelayEv("settle", <<0, 300>>)

----------------------------------------------------------------------------
(* C9: no pause lies between two forward writes (a pause that follows a    *)
(* forward write is followed by no forward write), while every backward    *)
(* write is followed by a 1 ms pause before the next backward write.       *)
C9_StepPauses ==
    /\ \A i \in 1 .. (Len(log) - 1) :
         (IsWrite(log[i], "fwd") /\ log[i + 1].op = "delay") =>
             \A j \in (i + 2) .. Len(log) : ~IsWrite(log[j], "fwd")
    /\ Len(DelaysAt(log, "fwd")) = 0
    /\ \A i \in 1 .. (Len(log) - 1) :
         IsWrite(log[i], "back") =>
             /\ log[i + 1].op = "delay" /\ log[i + 1].ms = <<0, 1>>
             /\ (i + 2 <= Len(log) /\ log[i + 2].site = "back") => log[i + 2].op = "write"

C9_Witness == Returned /\ Len(WritesAt(log, "fwd")) = 132 /\ Len(DelaysAt(log, "back")) = 132

----------------------------------------------------------------------------
(* The events of a call servo(d) made after a successful servoInit(). *)
ExpectedLog(d) ==
    [i \in 1 .. 264 |-> IF i % 2 = 1 THEN WriteEv("back", 176 - ((i - 1) \div 2))
                                      ELSE DelayEv("back", <<0, 1>>)]
    \o <<DelayEv("settle", <<0, 300>>)>>
    \o [i \in 1 .. 132 |-> WriteEv("fwd", 44 + i)]
    \o <<DelayEv("final", ToUint32(d))>>

(* C10: whatever the state of the servo object (never initialised, attach  *)
(* failed, attached), servo(d) returns having issued the same writes and   *)
(* pauses, and no step of it changes the servo's configuration.            *)
C10_IndependentOfInit ==
    /\ [](Returned => log = ExpectedLog(delayTime))
    /\ [][(pc # "idle" \/ pc' # "idle") => myservo' = myservo]_vars

C10_Witness == Returned /\ inits = 0 /\ ~myservo.attached /\ log = ExpectedLog(delayTime)

====
